---- MODULE Spec2Model ----
(***************************************************************************)
(* check_hbase_cell.py: a Nagios plugin that connects to an HBase Thrift   *)
(* server, reads one cell, checks it against an expected regex and against *)
(* warning/critical ranges, and reports one status line with perfdata.     *)
(*                                                                         *)
(* Text is modelled as a sequence of atoms (strings).  Data that the code  *)
(* inspects (the cell value, the expected regex, the units) is spelled one *)
(* character per atom; the fixed texts of the format strings are one atom  *)
(* each.  A line break is always an atom "\n" of its own, and so is each    *)
(* space of the perfdata that follows the " | " separator.                 *)
(***************************************************************************)
EXTENDS Integers, Sequences, FiniteSets, TLC

VARIABLES pc, opts, conn, status, msg, cells, value, stdout, exit_status,
          calls, thresholds_checked

vars == <<pc, opts, conn, status, msg, cells, value, stdout, exit_status,
          calls, thresholds_checked>>

\* ------------------------------------------------------------------ bounds
\* most cells one query may return
MaxCells == 2
\* most tables the table listing may return
MaxTables == 2
\* most lines the usage text prints after the error line
MaxUsageLines == 2

\* ------------------------------------------------------------- text helpers
Digits == {"0", "1", "2", "3", "4", "5", "6", "7", "8", "9"}

DigitVal(c) ==
    CASE c = "0" -> 0 [] c = "1" -> 1 [] c = "2" -> 2 [] c = "3" -> 3
      [] c = "4" -> 4 [] c = "5" -> 5 [] c = "6" -> 6 [] c = "7" -> 7
      [] c = "8" -> 8 [] c = "9" -> 9

AllDigits(s) == Len(s) >= 1 /\ \A i \in 1..Len(s) : s[i] \in Digits

\* t occurs in s as a contiguous run of atoms
Contains(s, t) ==
    \E i \in 0..(Len(s) - Len(t)) : \A j \in 1..Len(t) : s[i + j] = t[j]

RECURSIVE Count(_, _)
Count(s, a) ==
    IF s = <<>> THEN 0
    ELSE (IF Head(s) = a THEN 1 ELSE 0) + Count(Tail(s), a)

RECURSIVE Join(_, _)
\* sep.join(items), each item a text
Join(items, sep) ==
    IF items = <<>> THEN <<>>
    ELSE IF Len(items) = 1 THEN items[1]
    ELSE items[1] \o sep \o Join(Tail(items), sep)

\* ---------------------------------------------------- the library's helpers
None == <<"None">>

\* isFloat(): digits, optionally followed by a point and digits
isFloat(v) ==
    \/ AllDigits(v)
    \/ \E p \in 2..(Len(v) - 1) :
          /\ v[p] = "."
          /\ AllDigits(SubSeq(v, 1, p - 1))
          /\ AllDigits(SubSeq(v, p + 1, Len(v)))

RECURSIVE IntOf(_)
IntOf(s) == IF s = <<>> THEN 0 ELSE IntOf(SubSeq(s, 1, Len(s) - 1)) * 10 + DigitVal(s[Len(s)])

\* the number a float text denotes, in hundredths (texts carry at most two
\* decimals)
Hundredths(v) ==
    IF AllDigits(v) THEN IntOf(v) * 100
    ELSE LET p == CHOOSE q \in 2..(Len(v) - 1) : v[q] = "."
             f == SubSeq(v, p + 1, Len(v))
         IN  IntOf(SubSeq(v, 1, p - 1)) * 100
               + (IF Len(f) = 1 THEN IntOf(f) * 10 ELSE IntOf(SubSeq(f, 1, 2)))

\* a range spec [@]low:high as parsed: inf means no upper bound; set is
\* FALSE when the option was not given
Range(txt, low, high, inf, invert) ==
    [set |-> TRUE, txt |-> txt, low |-> low, high |-> high, inf |-> inf,
     invert |-> invert]

NoRange ==
    [set |-> FALSE, txt |-> "", low |-> 0, high |-> 0, inf |-> TRUE,
     invert |-> FALSE]

\* validate_thresholds(): low > high is a parse error
ValidRange(r) == r.inf \/ r.low <= r.high

\* the value lies outside the acceptable interval (inside it, if inverted)
Breaches(r, v) ==
    LET n == Hundredths(v)
        inside == n >= r.low * 100 /\ (r.inf \/ n <= r.high * 100)
    IN  IF r.invert THEN inside ELSE ~inside

ValidUnits == {<<"%">>, <<"s">>, <<"m", "s">>, <<"u", "s">>, <<"B">>,
               <<"K", "B">>, <<"M", "B">>, <<"G", "B">>, <<"T", "B">>, <<"c">>}

validate_units(u) == u \in ValidUnits

\* the regex subset: a literal, optionally anchored with ^ and $; a lone
\* opening parenthesis does not compile
RegexMeta == {"(", ")", "[", "]", "*", "+", "?"}

validate_regex(p) == \A i \in 1..Len(p) : p[i] \notin RegexMeta

support_msg_api == "SUPPORT_MSG_API"

\* re.search(p, v) for the regex subset: unanchored unless p says otherwise;
\* $ also matches just before a final line break
re_search(p, v) ==
    LET anchS == Len(p) >= 1 /\ p[1] = "^"
        q     == IF anchS THEN Tail(p) ELSE p
        anchE == Len(q) >= 1 /\ q[Len(q)] = "$"
        lit   == IF anchE THEN SubSeq(q, 1, Len(q) - 1) ELSE q
    IN  \E i \in 0..(Len(v) - Len(lit)) :
           /\ \A j \in 1..Len(lit) : v[i + j] = lit[j]
           /\ anchS => i = 0
           /\ anchE => \/ i + Len(lit) = Len(v)
                       \/ i + Len(lit) = Len(v) - 1 /\ v[Len(v)] = "\n"

\* check_thresholds(): critical() on a critical breach, otherwise warning()
\* on a warning breach; warning() never lowers CRITICAL
check_thresholds(st, v, w, c) ==
    IF c.set /\ Breaches(c, v) THEN "CRITICAL"
    ELSE IF w.set /\ Breaches(w, v)
         THEN (IF st = "CRITICAL" THEN st ELSE "WARNING")
    ELSE st

\* get_perf_thresholds(): ;warn;crit
get_perf_thresholds(w, c) == <<";", w.txt, ";", c.txt>>

\* ------------------------------------------------------------------ inputs
Values ==
    { <<"4", "2", ".", "5">>, <<"9", "5">>, <<"5">>, <<"5", ".">>,
      <<".", "5">>, <<"A">>, <<"I", "A">>, <<"A", "\n">>, <<"9", "\n", "5">>,
      <<>> }

\* the older versions a misbehaving server may return besides the latest
OlderValues == { <<"9", "5">>, <<"A">> }

CellLists ==
    UNION { [1..n -> Values] : n \in 0..1 }
      \cup UNION { [1..n -> OlderValues] : n \in 2..MaxCells }

TableNames == { <<"t", "1">>, <<"t", "2">> }

TableLists == UNION { [1..n -> TableNames] : n \in 0..MaxTables }

Expecteds == { None, <<>>, <<"A">>, <<"^", "A", "$">>, <<"(">> }

UnitsOpts == { None, <<"%">>, <<"x">> }

Warnings ==
    { NoRange, Range("0:50", 0, 50, FALSE, FALSE),
      Range("@0:50", 0, 50, FALSE, TRUE), Range("50:10", 50, 10, FALSE, FALSE) }

Criticals ==
    { NoRange, Range("0:90", 0, 90, FALSE, FALSE),
      Range("90:", 90, 0, TRUE, FALSE) }

\* what socket.timeout and ThriftException print as
TransportErrors == { <<"timed out">>, <<"TTransportException", "\n", "at">> }

\* the messages of HBaseIOError
IOErrors ==
    { <<"org.apache.hadoop.hbase.", "TableNotFoundException", ":", "\n", "at">>,
      <<"org.apache.hadoop.hbase.", "NoSuchColumnFamilyException", ":", "\n", "at">>,
      <<"java.io.IOException", "\n", "at">> }

\* what table.cells() / conn.tables() hand back: a list, or something else
ListOf(items) == [isList |-> TRUE, items |-> items]
NonList == [isList |-> FALSE, items |-> <<>>]

isList(x) == x.isList

\* ------------------------------------------------------------ the program
\* qquit(): print "STATUS: message" and exit with that status
qquit(st, text) ==
    /\ stdout' = Append(stdout, <<st, ": ">> \o text)
    /\ exit_status' = st
    /\ pc' = "done"

\* usage(): print the error and the option help, exit UNKNOWN
usage ==
    /\ \E n \in 0..MaxUsageLines :
          stdout' = Append(stdout,
                      Join([i \in 1..(n + 1) |-> <<"usage">>], <<"\n">>))
    /\ exit_status' = "UNKNOWN"
    /\ pc' = "done"

\* __init__ without the call of self.ok(): the status the base class sets
Init_without_ok ==
    /\ pc = "process_options"
    /\ opts = [list_tables |-> FALSE, table |-> None, row |-> None,
               column |-> None, expected |-> None, graph |-> FALSE,
               units |-> None, warning |-> NoRange, critical |-> NoRange]
    /\ conn = "None"
    /\ status = "UNKNOWN"
    /\ msg = <<"msg not defined">>
    /\ cells = [isList |-> TRUE, items |-> <<>>]
    /\ value = None
    /\ stdout = <<>>
    /\ exit_status = "running"
    /\ calls = <<>>
    /\ thresholds_checked = FALSE

\* __init__: the fields before any option is read, status set by self.ok()
Init ==
    /\ pc = "process_options"
    /\ opts = [list_tables |-> FALSE, table |-> None, row |-> None,
               column |-> None, expected |-> None, graph |-> FALSE,
               units |-> None, warning |-> NoRange, critical |-> NoRange]
    /\ conn = "None"
    /\ status = "OK"
    /\ msg = <<"msg not defined">>
    /\ cells = ListOf(<<>>)
    /\ value = None
    /\ stdout = <<>>
    /\ exit_status = "running"
    /\ calls = <<>>
    /\ thresholds_checked = FALSE

\* process_options() without the validate_units() call
process_options_units_unchecked ==
    /\ pc = "process_options"
    /\ \E lt \in BOOLEAN, e \in Expecteds, g \in BOOLEAN, u \in UnitsOpts,
          w \in Warnings, c \in Criticals :
          /\ opts' = [list_tables |-> lt,
                      table |-> IF lt THEN None ELSE <<"t", "1">>,
                      row |-> <<"r", "1">>, column |-> <<"c", "f", ":", "q">>,
                      expected |-> e, graph |-> g, units |-> u,
                      warning |-> w, critical |-> c]
          /\ IF /\ e # None => validate_regex(e)
                /\ ValidRange(w) /\ ValidRange(c)
             THEN pc' = "connect" /\ UNCHANGED <<stdout, exit_status>>
             ELSE usage
    /\ UNCHANGED <<conn, status, msg, cells, value, calls, thresholds_checked>>

\* process_options(): read the options and validate them; main() goes on
\* to run() only when none of the validations raised
process_options ==
    /\ pc = "process_options"
    /\ \E lt \in BOOLEAN, e \in Expecteds, g \in BOOLEAN, u \in UnitsOpts,
          w \in Warnings, c \in Criticals :
          /\ opts' = [list_tables |-> lt,
                      table |-> IF lt THEN None ELSE <<"t", "1">>,
                      row |-> <<"r", "1">>, column |-> <<"c", "f", ":", "q">>,
                      expected |-> e, graph |-> g, units |-> u,
                      warning |-> w, critical |-> c]
          /\ IF /\ e # None => validate_regex(e)
                /\ u # None => validate_units(u)
                /\ ValidRange(w) /\ ValidRange(c)
             THEN pc' = "connect" /\ UNCHANGED <<stdout, exit_status>>
             ELSE usage
    /\ UNCHANGED <<conn, status, msg, cells, value, calls, thresholds_checked>>

\* connect() that tries again after a failed attempt
connect_with_retry ==
    /\ pc = "connect"
    /\ calls' = Append(calls, "connect")
    /\ \/ /\ conn' = "open"
          /\ pc' = IF opts.list_tables THEN "get_tables" ELSE "is_table_enabled"
          /\ UNCHANGED <<stdout, exit_status>>
       \/ /\ Len(calls) < 1
          /\ UNCHANGED <<conn, pc, stdout, exit_status>>
       \/ /\ \E e \in TransportErrors : qquit("CRITICAL", e)
          /\ UNCHANGED conn
    /\ UNCHANGED <<opts, status, msg, cells, value, thresholds_checked>>

\* connect(), and run()'s choice between listing and checking
connect ==
    /\ pc = "connect"
    /\ calls' = Append(calls, "connect")
    /\ \/ /\ conn' = "open"
          /\ pc' = IF opts.list_tables THEN "get_tables" ELSE "is_table_enabled"
          /\ UNCHANGED <<stdout, exit_status>>
       \/ /\ \E e \in TransportErrors : qquit("CRITICAL", e)
          /\ UNCHANGED conn
    /\ UNCHANGED <<opts, status, msg, cells, value, thresholds_checked>>

\* get_tables() and the listing branch of run()
get_tables ==
    /\ pc = "get_tables"
    /\ calls' = Append(calls, "tables")
    /\ \/ \E tables \in TableLists :
             /\ stdout' = Append(stdout, <<"HBase Tables:", "\n", "\n">>
                                           \o Join(tables, <<"\n">>))
             /\ exit_status' = "UNKNOWN"
             /\ pc' = "done"
       \/ qquit("UNKNOWN", <<"table list returned is not a list! ", support_msg_api>>)
       \/ \E e \in TransportErrors :
             qquit("CRITICAL", <<"error while trying to get table list: ">> \o e)
    /\ UNCHANGED <<opts, conn, status, msg, cells, value, thresholds_checked>>

\* the except clauses of check_cell()
hbase_ioerror(m) ==
    IF Contains(m, <<"TableNotFoundException">>)
    THEN qquit("CRITICAL", <<"table '">> \o opts.table \o <<"' does not exist">>)
    ELSE IF Contains(m, <<"NoSuchColumnFamilyException">>)
    THEN qquit("CRITICAL", <<"column family '">> \o opts.column \o <<"' does not exist">>)
    ELSE qquit("CRITICAL", m)

\* check_cell() that prints the disabled table's message and carries on
check_cell_enabled_print_only ==
    /\ pc = "is_table_enabled"
    /\ calls' = Append(calls, "is_table_enabled")
    /\ \/ pc' = "cells" /\ UNCHANGED <<stdout, exit_status>>
       \/ /\ stdout' = Append(stdout, <<"CRITICAL", ": ", "table '">> \o opts.table
                                         \o <<"' is not enabled!">>)
          /\ pc' = "cells"
          /\ UNCHANGED exit_status
       \/ \E m \in IOErrors : hbase_ioerror(m)
       \/ \E e \in TransportErrors : qquit("CRITICAL", e)
    /\ UNCHANGED <<opts, conn, status, msg, cells, value, thresholds_checked>>

\* check_cell(), first part: is the table enabled
check_cell_enabled ==
    /\ pc = "is_table_enabled"
    /\ calls' = Append(calls, "is_table_enabled")
    /\ \/ pc' = "cells" /\ UNCHANGED <<stdout, exit_status>>
       \/ qquit("CRITICAL", <<"table '">> \o opts.table \o <<"' is not enabled!">>)
       \/ \E m \in IOErrors : hbase_ioerror(m)
       \/ \E e \in TransportErrors : qquit("CRITICAL", e)
    /\ UNCHANGED <<opts, conn, status, msg, cells, value, thresholds_checked>>

\* check_cell(), second part: the query, and the close that follows it
check_cell_query ==
    /\ pc = "cells"
    /\ \/ /\ \E r \in {ListOf(l) : l \in CellLists} \cup {NonList} : cells' = r
          /\ calls' = calls \o <<"cells", "close">>
          /\ conn' = "closed"
          /\ pc' = "validate"
          /\ UNCHANGED <<stdout, exit_status>>
       \/ /\ \/ \E m \in IOErrors : hbase_ioerror(m)
             \/ \E e \in TransportErrors : qquit("CRITICAL", e)
          /\ calls' = Append(calls, "cells")
          /\ UNCHANGED <<conn, cells>>
    /\ UNCHANGED <<opts, status, msg, value, thresholds_checked>>

cell_info ==
    <<"HBase table '">> \o opts.table \o <<"' row '">> \o opts.row
       \o <<"' column '">> \o opts.column \o <<"'">>

\* len(cells) < 1
too_few(items) == Len(items) < 1

too_many_off_by_one(items) == Len(items) > 2

\* len(cells) > 1
too_many(items) == Len(items) > 1

\* re.match instead of re.search: the pattern must match at the start
expected_mismatch_anchored(e, v) ==
    /\ e # None /\ e # <<>>
    /\ ~re_search(IF Head(e) = "^" THEN e ELSE <<"^">> \o e, v)

\* if self.expected: ... if not re.search(self.expected, value)
expected_mismatch(e, v) == e # None /\ e # <<>> /\ ~re_search(e, v)

\* an empty result reported as a protocol violation
check_cell_validate_empty_unknown ==
    /\ pc = "validate"
    /\ IF ~isList(cells)
       THEN /\ qquit("UNKNOWN", <<"non-list returned for cells. ", support_msg_api>>)
            /\ UNCHANGED <<value, msg>>
       ELSE IF Len(cells.items) # 1
       THEN /\ qquit("UNKNOWN", <<"unexpected number of cells returned! ", support_msg_api>>)
            /\ UNCHANGED <<value, msg>>
       ELSE LET v == cells.items[1] IN
            /\ value' = v
            /\ msg' = <<"cell value = '">> \o v \o <<"' for ">> \o cell_info
            /\ IF expected_mismatch(opts.expected, v)
               THEN qquit("CRITICAL", <<"cell value '">> \o v
                             \o <<"' (", "expected ", "regex '">>
                             \o opts.expected \o <<"') ", "for ">> \o cell_info)
               ELSE pc' = "output_perfdata" /\ UNCHANGED <<stdout, exit_status>>
    /\ UNCHANGED <<opts, conn, status, cells, calls, thresholds_checked>>

\* check_cell(), last part: shape, cardinality and expected regex
check_cell_validate ==
    /\ pc = "validate"
    /\ IF ~isList(cells)
       THEN /\ qquit("UNKNOWN", <<"non-list returned for cells. ", support_msg_api>>)
            /\ UNCHANGED <<value, msg>>
       ELSE IF too_few(cells.items)
       THEN /\ qquit("CRITICAL", <<"no cell value found in ">> \o cell_info
                         \o <<", does row / column family combination exist?">>)
            /\ UNCHANGED <<value, msg>>
       ELSE IF too_many(cells.items)
       THEN /\ qquit("UNKNOWN", <<"more than one cell returned! ", support_msg_api>>)
            /\ UNCHANGED <<value, msg>>
       ELSE LET v == cells.items[1] IN
            /\ value' = v
            /\ msg' = <<"cell value = '">> \o v \o <<"' for ">> \o cell_info
            /\ IF expected_mismatch(opts.expected, v)
               THEN qquit("CRITICAL", <<"cell value '">> \o v
                             \o <<"' (", "expected ", "regex '">>
                             \o opts.expected \o <<"') ", "for ">> \o cell_info)
               ELSE pc' = "output_perfdata" /\ UNCHANGED <<stdout, exit_status>>
    /\ UNCHANGED <<opts, conn, status, cells, calls, thresholds_checked>>

\* output_perfdata() that graphs the value only when it is a float
output_perfdata_no_nan ==
    /\ pc = "output_perfdata"
    /\ IF isFloat(value)
       THEN /\ status' = check_thresholds(status, value, opts.warning, opts.critical)
            /\ thresholds_checked' = TRUE
       ELSE UNCHANGED <<status, thresholds_checked>>
    /\ msg' = msg \o <<" | ">>
                  \o (IF opts.graph /\ isFloat(value)
                      THEN <<"value=">> \o value
                             \o (IF opts.units # None /\ opts.units # <<>>
                                 THEN opts.units ELSE <<>>)
                             \o get_perf_thresholds(opts.warning, opts.critical)
                      ELSE <<>>)
                  \o <<" ", "connect_time=", "0.0100", "s", " ",
                        "query_time=", "0.0200", "s">>
    /\ pc' = "end"
    /\ UNCHANGED <<opts, conn, cells, value, stdout, exit_status, calls>>

\* output_perfdata(): check the thresholds of a float, append the perfdata
output_perfdata ==
    /\ pc = "output_perfdata"
    /\ IF isFloat(value)
       THEN /\ status' = check_thresholds(status, value, opts.warning, opts.critical)
            /\ thresholds_checked' = TRUE
       ELSE UNCHANGED <<status, thresholds_checked>>
    /\ msg' = msg \o <<" | ">>
                  \o (IF opts.graph
                      THEN IF isFloat(value)
                           THEN <<"value=">> \o value
                                  \o (IF opts.units # None /\ opts.units # <<>>
                                      THEN opts.units ELSE <<>>)
                                  \o get_perf_thresholds(opts.warning, opts.critical)
                           ELSE <<"value=NaN">>
                      ELSE <<>>)
                  \o <<" ", "connect_time=", "0.0100", "s", " ",
                        "query_time=", "0.0200", "s">>
    /\ pc' = "end"
    /\ UNCHANGED <<opts, conn, cells, value, stdout, exit_status, calls>>

\* main() after run() returns: end() prints "STATUS: msg" and exits
end ==
    /\ pc = "end"
    /\ qquit(status, msg)
    /\ UNCHANGED <<opts, conn, status, msg, cells, value, calls, thresholds_checked>>

Next ==
    \/ process_options
    \/ connect
    \/ get_tables
    \/ check_cell_enabled
    \/ check_cell_query
    \/ check_cell_validate
    \/ output_perfdata
    \/ end

Spec == Init /\ [][Next]_vars

\* the interpreter runs the single thread to its exit
FairSpec == Spec /\ WF_vars(Next)

\* ------------------------------------------------------------- properties
Done == pc = "done"

\* the query returned (check_cell closes the connection right after it)
QuerySucceeded == conn = "closed"

\* output_perfdata() has run
PerfdataReached == pc \in {"end", "done"} /\ Contains(msg, <<" | ">>)

\* what the process printed last
Printed == stdout[Len(stdout)]

RECURSIVE TotalLines(_)
\* lines on standard output: each print ends its text with one line break
TotalLines(out) ==
    IF out = <<>> THEN 0
    ELSE 1 + Count(Head(out), "\n") + TotalLines(Tail(out))

OptionsValid(o) ==
    /\ o.expected # None => validate_regex(o.expected)
    /\ o.units # None => validate_units(o.units)
    /\ ValidRange(o.warning) /\ ValidRange(o.critical)

\* the status the value and the two ranges call for
ThresholdStatus(v, w, c) ==
    IF isFloat(v) /\ c.set /\ Breaches(c, v) THEN "CRITICAL"
    ELSE IF isFloat(v) /\ w.set /\ Breaches(w, v) THEN "WARNING"
    ELSE "OK"

RECURSIVE Tokens(_, _)
\* the space-separated tokens of a text; cur is the token being read
Tokens(s, cur) ==
    IF s = <<>> THEN (IF cur = <<>> THEN <<>> ELSE <<cur>>)
    ELSE IF Head(s) = " "
         THEN (IF cur = <<>> THEN <<>> ELSE <<cur>>) \o Tokens(Tail(s), <<>>)
    ELSE Tokens(Tail(s), Append(cur, Head(s)))

\* the text after the " | " separator
PerfPart(m) ==
    LET i == CHOOSE k \in 1..Len(m) : m[k] = " | " /\ \A j \in 1..(k - 1) : m[j] # " | "
    IN  SubSeq(m, i + 1, Len(m))

PerfTokens == Tokens(PerfPart(msg), <<>>)

PerfLabels == [i \in 1..Len(PerfTokens) |-> Head(PerfTokens[i])]

\* C1: whenever a run that connected has reported and exited, the connection
\* has been closed.
C1_ReleasedBeforeReport == (Done /\ conn # "None") => conn = "closed"

C4_NonFloatAlerts ==
    (Done /\ value # None /\ ~isFloat(value)
          /\ (opts.warning.set \/ opts.critical.set)) => exit_status # "OK"

\* C5 as stated: a successful query returning an empty list, more than one
\* cell or a non-list ends UNKNOWN with the support pointer in the message.
C5_BadShapeUnknown ==
    (Done /\ QuerySucceeded /\ (~isList(cells) \/ Len(cells.items) # 1)) =>
        exit_status = "UNKNOWN" /\ Contains(Printed, <<support_msg_api>>)

\* C5 amended: a successful query returning more than one cell or a non-list
\* ends UNKNOWN with the support pointer in the message; an empty list ends
\* CRITICAL, without the support pointer.
C5_BadShapeUnknownOrCritical ==
    (Done /\ QuerySucceeded) =>
        /\ (~isList(cells) \/ Len(cells.items) > 1) =>
              exit_status = "UNKNOWN" /\ Contains(Printed, <<support_msg_api>>)
        /\ (isList(cells) /\ Len(cells.items) = 0) =>
              exit_status = "CRITICAL" /\ ~Contains(Printed, <<support_msg_api>>)

C5_Witness ==
    /\ Done /\ QuerySucceeded /\ isList(cells) /\ Len(cells.items) = MaxCells
    /\ exit_status = "UNKNOWN"

\* C6: an enabled target whose query returns a list of zero cells ends
\* CRITICAL with the message that no value was found for the table, row and
\* column; no threshold is evaluated and no perfdata is printed.
C6_EmptyIsCritical ==
    (Done /\ QuerySucceeded /\ isList(cells) /\ Len(cells.items) = 0) =>
        /\ exit_status = "CRITICAL"
        /\ Contains(Printed, <<"no cell value found in ">> \o cell_info)
        /\ ~thresholds_checked
        /\ ~Contains(Printed, <<" | ">>)
        /\ ~Contains(Printed, <<"connect_time=">>)

C6_Witness ==
    /\ Done /\ QuerySucceeded /\ isList(cells) /\ cells.items = <<>>
    /\ opts.critical.set /\ opts.graph

\* C7: with an expected pattern supplied and exactly one cell returned, a
\* value the pattern does not match (unanchored search) ends CRITICAL with
\* the value and the pattern in the message, whatever the thresholds; a
\* value it matches leaves the status to the thresholds.
C7_PatternMismatchCritical ==
    (Done /\ QuerySucceeded /\ isList(cells) /\ Len(cells.items) = 1
          /\ opts.expected # None) =>
        IF re_search(opts.expected, cells.items[1])
        THEN exit_status = ThresholdStatus(value, opts.warning, opts.critical)
        ELSE /\ exit_status = "CRITICAL"
             /\ Contains(Printed, <<"cell value '">> \o cells.items[1] \o <<"' (">>)
             /\ Contains(Printed, <<"regex '">> \o opts.expected \o <<"') ">>)

C7_Witness ==
    /\ Done /\ QuerySucceeded /\ cells = ListOf(<< <<"9", "5">> >>)
    /\ opts.expected = <<"^", "A", "$">> /\ ~opts.critical.set /\ ~opts.warning.set
    /\ exit_status = "CRITICAL"

\* C8: perfdata printed with graphing on holds exactly one value token
\* (value=<number>[units][thresholds] for a float, value=NaN otherwise),
\* followed by one connect_time and one query_time token; with graphing off
\* there is no value token.
C8_PerfTokens ==
    PerfdataReached =>
        IF opts.graph
        THEN /\ Len(PerfTokens) = 3
             /\ PerfTokens[1] =
                   IF isFloat(value)
                   THEN <<"value=">> \o value
                          \o (IF opts.units # None THEN opts.units ELSE <<>>)
                          \o <<";", opts.warning.txt, ";", opts.critical.txt>>
                   ELSE <<"value=NaN">>
             /\ SubSeq(PerfLabels, 2, 3) = <<"connect_time=", "query_time=">>
        ELSE /\ PerfLabels = <<"connect_time=", "query_time=">>
             /\ ~Contains(msg, <<"value=">>) /\ ~Contains(msg, <<"value=NaN">>)

C8_Witness ==
    /\ Done /\ PerfdataReached /\ opts.graph /\ ~isFloat(value)
    /\ Len(PerfTokens) = 3

\* C9: a run whose threshold specs, expected pattern or units are invalid
\* ends with UNKNOWN without any call to the server.
C9_NoNetworkOnBadOptions ==
    (pc # "process_options" /\ ~OptionsValid(opts)) =>
        /\ calls = <<>> /\ conn = "None"
        /\ Done /\ exit_status = "UNKNOWN"

C9_Witness ==
    /\ Done /\ opts.units = <<"x">> /\ OptionsValid([opts EXCEPT !.units = None])
    /\ calls = <<>>

\* C10: the steps run in the order connect, target-enabled check, query,
\* validation, threshold evaluation, report; connect and query are called at
\* most once, the query only on an open connection; a failing step goes
\* straight to the report; every run reports, once.
Rank(p) ==
    CASE p = "process_options" -> 0
      [] p = "connect" -> 1
      [] p = "is_table_enabled" -> 2
      [] p = "get_tables" -> 2
      [] p = "cells" -> 3
      [] p = "validate" -> 4
      [] p = "output_perfdata" -> 5
      [] p = "end" -> 6
      [] p = "done" -> 7

IsPrefix(s, t) == Len(s) <= Len(t) /\ s = SubSeq(t, 1, Len(s))

StepOrder ==
    /\ pc' # pc => (pc' = "done" \/ Rank(pc') = Rank(pc) + 1)
    /\ calls' # calls => pc' # pc
    /\ (Len(calls') > 1 /\ calls' # calls) => conn # "None"
    /\ stdout' # stdout => (stdout = <<>> /\ Len(stdout') = 1 /\ pc' = "done")
    /\ pc' = "done" => Len(stdout') = 1

C10_OrderedOnceAndReported ==
    /\ [][StepOrder]_vars
    /\ [](\/ IsPrefix(calls, <<"connect", "is_table_enabled", "cells", "close">>)
          \/ IsPrefix(calls, <<"connect", "tables">>))
    /\ <>[](pc = "done")

C10_Witness ==
    /\ Done /\ calls = <<"connect", "is_table_enabled", "cells", "close">>
    /\ PerfdataReached /\ Len(stdout) = 1

====
